---- MODULE Spec2Model ----
(***************************************************************************)
(* A model of the maze engine: the Grid (src/maze/mod.rs), the Wilson      *)
(* loop-erased random walk generator and the RandomDFS generator           *)
(* (src/maze/generators.rs), the three solvers DFS, BFS and A*             *)
(* (src/maze/solvers.rs) and the binary codec (encode_maze / decode_maze   *)
(* in src/maze/mod.rs).                                                    *)
(*                                                                         *)
(* Conventions.  A position is a pair <<x, y>>; a neighbor as returned by  *)
(* get_neighbors is a triple <<x, y, dir>>.  Option<T> is a sequence of    *)
(* length 0 (None) or 1 (Some).  A Maze is a record [width, height, cells] *)
(* whose cells are a row-major sequence, so that the Rust index i is       *)
(* cells[i + 1].  A panic ends the program: it is recorded in the          *)
(* variable holding the call's outcome and nothing runs after it.          *)
(* Wilson.current_walk_steps is a counter the program only ever            *)
(* increments and never reads; it is left out of the generator's state.    *)
(***************************************************************************)
EXTENDS Integers, Sequences, FiniteSets, TLC

VARIABLES
    maze,      \* the Maze: [width, height, cells]
    wilson,    \* the Wilson generator: [walk, first_walk_target, opposite_of_last_direction]
    random_dfs, \* the RandomDFS generator: [stack]
    gen_ret,   \* outcome of the latest generator call: "new", "false", "true", "panic"
    alg,       \* the Algorithm variant that was constructed: "none", "dfs", "bfs", "astar"
    solver,    \* the solver's own state (the fields of the variant's struct)
    sol_ret,   \* outcome of the latest solver step: [kind, path, repeat], kind being
               \* "new" (no step yet), "None", "Some" or "panic"; repeat tells that
               \* the step was called after a path had been returned
    data,      \* the byte buffer the codec produced or is given
    decoded,   \* outcome of the latest decode_maze call: [kind, value]
    op         \* the latest Grid / codec operation, its arguments and, for get and
               \* get_travellable_neighbors, the value returned; for the generator,
               \* the latest step call and the neighbor its redraw loop left with

vars == <<maze, wilson, random_dfs, gen_ret, alg, solver, sol_ret, data, decoded, op>>

(***************************************************************************)
(* Bounds of the model.                                                    *)
(***************************************************************************)
\* the generator runs on W x H grids with W >= 2, H >= 2 and W*H <= GenMaxCells
GenMaxCells == 9
\* Grid operations and the codec are applied to W x H grids with W*H <= GridMaxCells
GridMaxCells == 4
\* decode_maze is applied to buffers of up to 2 + BufMaxCellBytes bytes
BufMaxCellBytes == 2
\* the solvers run on W x H grids with W*H <= SolveMaxCells whose passages are
\* symmetric, and on every grid with W*H <= SolveOneWayMaxCells, one-way passages
\* included
SolveMaxCells == 9
SolveOneWayMaxCells == 4
\* the width of the one wide grid the codec is applied to (a width that needs
\* both bytes of the header)
WideWidth == 258
\* construction and stepping of the generator are also run on every W x H grid
\* with W >= 1, H >= 1 and W*H <= GenAnyMaxCells
GenAnyMaxCells == 6
\* the RandomDFS generator is run on every W x H grid with W*H <= RandomDFSMaxCells
RandomDFSMaxCells == 6

(***************************************************************************)
(* Direction (src/lib.rs).                                                 *)
(***************************************************************************)
UP == 1
RIGHT == 2
DOWN == 4
LEFT == 8

Direction == {UP, RIGHT, DOWN, LEFT}

None == <<>>
Some(v) == <<v>>

opposite(dir) ==
    CASE dir = UP -> DOWN
      [] dir = DOWN -> UP
      [] dir = LEFT -> RIGHT
      [] dir = RIGHT -> LEFT

\* the outcome of a call that returns a Result or panics
Ok(v) == [kind |-> "Ok", value |-> v]
Err(v) == [kind |-> "Err", value |-> v]
Panic == [kind |-> "panic", value |-> <<>>]

\* A usize that can be as large as usize::MAX (a cost of the A* solver, a
\* coordinate that travel wrapped) is written as its three digits in base
\* 10^9, most significant first: <<a, b, c>> is a * 10^18 + b * 10^9 + c.
\* Coordinates and lengths of a grid are plain integers; they are below 2^31.
Base == 1000000000

\* n as usize, for a plain integer n >= 0
usize(n) == <<0, n \div Base, n % Base>>

\* usize::MAX, 18446744073709551615
USIZE_MAX == <<18, 446744073, 709551615>>

\* a < b and a <= b on usize
usize_lt(a, b) ==
    \/ a[1] < b[1]
    \/ a[1] = b[1] /\ a[2] < b[2]
    \/ a[1] = b[1] /\ a[2] = b[2] /\ a[3] < b[3]

usize_le(a, b) == a = b \/ usize_lt(a, b)

\* the mathematical sum of two usize values (it can exceed usize::MAX)
usize_sum(a, b) ==
    LET low == a[3] + b[3]
        mid == a[2] + b[2] + low \div Base
    IN  <<a[1] + b[1] + mid \div Base, mid % Base, low % Base>>

\* a - b, for a >= b
usize_diff(a, b) ==
    LET low == a[3] - b[3]
        mid == a[2] - b[2] - (IF low < 0 THEN 1 ELSE 0)
    IN  <<a[1] - b[1] - (IF mid < 0 THEN 1 ELSE 0),
          IF mid < 0 THEN mid + Base ELSE mid,
          IF low < 0 THEN low + Base ELSE low>>

\* whether a + b on usize overflows
add_overflows(a, b) == usize_lt(USIZE_MAX, usize_sum(a, b))

\* a + b on usize in a build without overflow checks: modulo 2^64
wrapping_add(a, b) ==
    LET sum == usize_sum(a, b)
    IN  IF usize_lt(USIZE_MAX, sum)
        THEN usize_diff(usize_diff(sum, USIZE_MAX), usize(1))
        ELSE sum

\* the position next to (x, y) in direction dir on the integer plane: beyond
\* the low edge of the grid its coordinate is -1.  Where travel does not
\* overflow this is the position travel returns.
neighbor_at(dir, x, y) ==
    CASE dir = UP -> <<x, y - 1>>
      [] dir = DOWN -> <<x, y + 1>>
      [] dir = LEFT -> <<x - 1, y>>
      [] dir = RIGHT -> <<x + 1, y>>

\* whether the subtraction of travel overflows usize: y - 1 at y = 0, x - 1 at
\* x = 0 (its additions overflow at usize::MAX only, which no coordinate of a
\* grid is)
travel_overflows(dir, x, y) ==
    \/ dir = UP /\ y = 0
    \/ dir = LEFT /\ x = 0

\* Direction::travel; overflow_checks tells whether the build panics on integer
\* overflow (a debug build) or wraps (a release build), 0 - 1 giving usize::MAX
travel(dir, x, y, overflow_checks) ==
    IF travel_overflows(dir, x, y)
    THEN IF overflow_checks THEN Panic
         ELSE Ok(IF dir = UP THEN <<x, USIZE_MAX>> ELSE <<USIZE_MAX, y>>)
    ELSE Ok(neighbor_at(dir, x, y))

(***************************************************************************)
(* Maze (src/maze/mod.rs).                                                 *)
(***************************************************************************)
\* value & dir != 0, for a single-bit dir
HasBit(value, dir) == (value \div dir) % 2 = 1

\* Maze::new: width * height cells, all zero
new_maze(width, height) ==
    [width |-> width, height |-> height, cells |-> [i \in 1..(width * height) |-> 0]]

get_bounds(m) == <<m.width, m.height>>

\* a faulty bounds check: only the flat index is checked, as geti does
InBoundsFlat(m, x, y) == x >= 0 /\ y >= 0 /\ y * m.width + x < Len(m.cells)

\* the condition under which Maze::get returns instead of panicking
InBounds(m, x, y) == x >= 0 /\ y >= 0 /\ x < m.width /\ y < m.height

get(m, x, y) == m.cells[y * m.width + x + 1]

i_to_xy(m, i) == <<i % m.width, i \div m.width>>

xy_to_i(m, x, y) == y * m.width + x

\* a faulty open: it assigns the direction to the cell instead of or-ing it in
open_assign(m, x, y, direction) ==
    [m EXCEPT !.cells[y * m.width + x + 1] = direction]

\* a faulty open: it flips the bit instead of setting it
open_toggle(m, x, y, direction) ==
    LET cell == get(m, x, y)
    IN  [m EXCEPT !.cells[y * m.width + x + 1] =
            IF HasBit(cell, direction) THEN cell - direction ELSE cell + direction]

open(m, x, y, direction) ==
    LET cell == get(m, x, y)
    IN  [m EXCEPT !.cells[y * m.width + x + 1] =
            IF HasBit(cell, direction) THEN cell ELSE cell + direction]

close(m, x, y, direction) ==
    LET cell == get(m, x, y)
    IN  [m EXCEPT !.cells[y * m.width + x + 1] =
            IF HasBit(cell, direction) THEN cell - direction ELSE cell]

\* carve returns only when the cell and the cell travelled to are both in
\* bounds: otherwise the first open panics in get, or travel panics on the
\* overflow (a build with overflow checks), or the second open panics in get
\* (the cell travelled to is out of bounds: a wrapped coordinate is usize::MAX,
\* which is below no width or height)
carve_returns(m, x, y, direction) ==
    /\ InBounds(m, x, y)
    /\ ~travel_overflows(direction, x, y)
    /\ LET t == travel(direction, x, y, FALSE).value
       IN  InBounds(m, t[1], t[2])

\* a faulty carve: it opens the near side only
carve_one_sided(m, x, y, direction) == open(m, x, y, direction)

carve(m, x, y, direction) ==
    LET m1 == open(m, x, y, direction)
        t == travel(direction, x, y, FALSE).value
    IN  open(m1, t[1], t[2], opposite(direction))

delete(m, x, y) == [m EXCEPT !.cells[y * m.width + x + 1] = 0]

get_neighbors(m, pos) ==
    LET x == pos[1]
        y == pos[2]
    IN  (IF x > 0 THEN << <<x - 1, y, LEFT>> >> ELSE <<>>)
        \o (IF x + 1 < m.width THEN << <<x + 1, y, RIGHT>> >> ELSE <<>>)
        \o (IF y > 0 THEN << <<x, y - 1, UP>> >> ELSE <<>>)
        \o (IF y + 1 < m.height THEN << <<x, y + 1, DOWN>> >> ELSE <<>>)

\* a get_travellable_neighbors that writes the neighbors in the order of the
\* Direction enum, UP, RIGHT, DOWN, LEFT, instead of the order of its code
get_travellable_neighbors_clockwise(m, pos) ==
    LET x == pos[1]
        y == pos[2]
        value == get(m, x, y)
    IN  (IF y > 0 /\ HasBit(value, UP) THEN << <<x, y - 1>> >> ELSE <<>>)
        \o (IF x + 1 < m.width /\ HasBit(value, RIGHT) THEN << <<x + 1, y>> >> ELSE <<>>)
        \o (IF y + 1 < m.height /\ HasBit(value, DOWN) THEN << <<x, y + 1>> >> ELSE <<>>)
        \o (IF x > 0 /\ HasBit(value, LEFT) THEN << <<x - 1, y>> >> ELSE <<>>)

\* a faulty get_travellable_neighbors: the DOWN test compares with the width
get_travellable_neighbors_width(m, pos) ==
    LET x == pos[1]
        y == pos[2]
        value == get(m, x, y)
    IN  (IF x > 0 /\ HasBit(value, LEFT) THEN << <<x - 1, y>> >> ELSE <<>>)
        \o (IF x + 1 < m.width /\ HasBit(value, RIGHT) THEN << <<x + 1, y>> >> ELSE <<>>)
        \o (IF y > 0 /\ HasBit(value, UP) THEN << <<x, y - 1>> >> ELSE <<>>)
        \o (IF y + 1 < m.width /\ HasBit(value, DOWN) THEN << <<x, y + 1>> >> ELSE <<>>)

\* the first neighbor_count entries of the returned array, in the order they
\* are written (callers read no other entry)
get_travellable_neighbors(m, pos) ==
    LET x == pos[1]
        y == pos[2]
        value == get(m, x, y)
    IN  (IF x > 0 /\ HasBit(value, LEFT) THEN << <<x - 1, y>> >> ELSE <<>>)
        \o (IF x + 1 < m.width /\ HasBit(value, RIGHT) THEN << <<x + 1, y>> >> ELSE <<>>)
        \o (IF y > 0 /\ HasBit(value, UP) THEN << <<x, y - 1>> >> ELSE <<>>)
        \o (IF y + 1 < m.height /\ HasBit(value, DOWN) THEN << <<x, y + 1>> >> ELSE <<>>)

SeqToSet(s) == {s[i] : i \in 1..Len(s)}

Positions(m) == (0..(m.width - 1)) \X (0..(m.height - 1))

(***************************************************************************)
(* Wilson (src/maze/generators.rs).                                        *)
(***************************************************************************)
\* Wilson::new: a random start and a random end different from it
wilson_new(start, end) ==
    [walk |-> <<start>>,
     first_walk_target |-> Some(end),
     opposite_of_last_direction |-> None]

\* a faulty pos_in_stack: the index it returns counts from 1
pos_in_stack_from_one(w, pos) ==
    LET hits == {i \in 1..Len(w.walk) : w.walk[i] = pos}
    IN  IF hits = {} THEN None
        ELSE Some(CHOOSE i \in hits : \A j \in hits : i <= j)

\* a faulty pos_in_stack: each coordinate is compared with the other one
pos_in_stack_swapped(w, pos) ==
    LET hits == {i \in 1..Len(w.walk) : pos[1] = w.walk[i][2] /\ pos[2] = w.walk[i][1]}
    IN  IF hits = {} THEN None
        ELSE Some((CHOOSE i \in hits : \A j \in hits : i <= j) - 1)

\* a faulty pos_in_stack: the second comparison reads v.0 where v.1 is meant
pos_in_stack_typo(w, pos) ==
    LET hits == {i \in 1..Len(w.walk) : pos[1] = w.walk[i][1] /\ pos[2] = w.walk[i][1]}
    IN  IF hits = {} THEN None
        ELSE Some((CHOOSE i \in hits : \A j \in hits : i <= j) - 1)

\* Option<usize>: the 0-based index of the first occurrence of pos in the walk
pos_in_stack(w, pos) ==
    LET hits == {i \in 1..Len(w.walk) : w.walk[i] = pos}
    IN  IF hits = {} THEN None
        ELSE Some((CHOOSE i \in hits : \A j \in hits : i <= j) - 1)

\* the direction finish_walk derives from a consecutive pair of the walk
walk_direction(start, end) ==
    IF start[1] = end[1]
    THEN (IF end[2] > start[2] THEN DOWN ELSE UP)
    ELSE (IF end[1] > start[1] THEN RIGHT ELSE LEFT)

\* finish_walk returns only when each of its carves does
finish_walk_returns(w, m) ==
    \A i \in 1..(Len(w.walk) - 1) :
        carve_returns(m, w.walk[i][1], w.walk[i][2], walk_direction(w.walk[i], w.walk[i + 1]))

RECURSIVE finish_walk_from(_, _, _, _)
finish_walk_from(w, m, i, last) ==
    IF i > last THEN m
    ELSE finish_walk_from(w,
            carve(m, w.walk[i][1], w.walk[i][2], walk_direction(w.walk[i], w.walk[i + 1])),
            i + 1, last)

\* a faulty finish_walk: it leaves out the last pair of the walk
finish_walk_short(w, m) == finish_walk_from(w, m, 1, Len(w.walk) - 2)

\* for i in 0..walk.len()-1: carve(walk[i], direction to walk[i+1])
finish_walk(w, m) == finish_walk_from(w, m, 1, Len(w.walk) - 1)

\* the cells create_new_walk may start from, in index order
possible_next(m) ==
    LET zero(i) == m.cells[i] = 0
        idx == SelectSeq([i \in 1..Len(m.cells) |-> i], zero)
    IN  [k \in 1..Len(idx) |-> i_to_xy(m, idx[k] - 1)]

\* a faulty create_new_walk: it does not report that no cell is left
create_new_walk_silent(w, m, pick) ==
    IF Len(possible_next(m)) = 0
    THEN [w |-> [w EXCEPT !.walk = <<>>], ret |-> FALSE]
    ELSE [w |-> [w EXCEPT !.walk = <<possible_next(m)[pick + 1]>>,
                          !.opposite_of_last_direction = None],
          ret |-> FALSE]

\* a faulty create_new_walk: the walk is not cleared before the early return
create_new_walk_uncleared(w, m, pick) ==
    IF Len(possible_next(m)) = 0
    THEN [w |-> w, ret |-> TRUE]
    ELSE [w |-> [w EXCEPT !.walk = <<possible_next(m)[pick + 1]>>,
                          !.opposite_of_last_direction = None],
          ret |-> FALSE]

\* create_new_walk with the random index drawn being pick (0-based); the result
\* is the generator's new state and the value returned
create_new_walk(w, m, pick) ==
    IF Len(possible_next(m)) = 0
    THEN [w |-> [w EXCEPT !.walk = <<>>], ret |-> TRUE]
    ELSE [w |-> [w EXCEPT !.walk = <<possible_next(m)[pick + 1]>>,
                          !.opposite_of_last_direction = None],
          ret |-> FALSE]

\* a faulty redraw loop: its test is inverted, so that once a direction has
\* been taken only its opposite is accepted
step_choices_inverted(w, m) ==
    LET neighbors == get_neighbors(m, w.walk[Len(w.walk)])
    IN  {n \in SeqToSet(neighbors) :
            ~(w.opposite_of_last_direction # None
              /\ w.opposite_of_last_direction[1] # n[3])}

\* the neighbors the redraw loop of step can leave with
step_choices(w, m) ==
    LET neighbors == get_neighbors(m, w.walk[Len(w.walk)])
    IN  {n \in SeqToSet(neighbors) :
            ~(w.opposite_of_last_direction # None
              /\ w.opposite_of_last_direction[1] = n[3])}

\* a faulty commit test: the first-walk target is not looked at
step_commits_carved_only(w, m, next) == get(m, next[1], next[2]) # 0

\* whether the step that appended next commits the walk
step_commits(w, m, next) ==
    \/ get(m, next[1], next[2]) # 0
    \/ /\ w.first_walk_target # None
       /\ w.first_walk_target[1] = <<next[1], next[2]>>

\* Wilson::step for a non-empty walk, given the neighbor the loop left with and the
\* index create_new_walk draws: [w, m, ret] with ret the value returned, or
\* "panic"
wilson_step(w, m, next, pick) ==
    LET break_index == pos_in_stack(w, <<next[1], next[2]>>)
        w1 == [w EXCEPT !.opposite_of_last_direction = Some(opposite(next[3])),
                        !.walk = Append(w.walk, <<next[1], next[2]>>)]
    IN  IF break_index # None
        THEN [w |-> [w EXCEPT !.walk = SubSeq(w.walk, 1, break_index[1] + 1)],
              m |-> m, ret |-> "false"]
        ELSE IF step_commits(w, m, next)
        THEN LET w2 == [w1 EXCEPT !.first_walk_target = None]
             IN  IF ~finish_walk_returns(w2, m)
                 THEN [w |-> w2, m |-> m, ret |-> "panic"]
                 ELSE LET m2 == finish_walk(w2, m)
                          r == create_new_walk(w2, m2, pick)
                      IN  [w |-> r.w, m |-> m2,
                           ret |-> IF r.ret THEN "true" ELSE "false"]
        ELSE [w |-> w1, m |-> m, ret |-> "false"]

\* the indices create_new_walk can draw after the step (0 when it draws none)
pick_range(w, m, next) ==
    IF pos_in_stack(w, <<next[1], next[2]>>) = None /\ step_commits(w, m, next)
       /\ finish_walk_returns([w EXCEPT !.walk = Append(w.walk, <<next[1], next[2]>>)], m)
    THEN LET n == Len(possible_next(
                    finish_walk([w EXCEPT !.walk = Append(w.walk, <<next[1], next[2]>>)], m)))
         IN  IF n = 0 THEN {0} ELSE 0..(n - 1)
    ELSE {0}

NoSolver == [visited |-> {}, path |-> <<>>]
NoRet == [kind |-> "new", path |-> <<>>, repeat |-> FALSE]
NoOp == [name |-> "none", x |-> 0, y |-> 0, dir |-> 0, ret |-> 0]
NoDecoded == [kind |-> "none", value |-> <<>>]
NoWilson == [walk |-> <<>>, first_walk_target |-> None, opposite_of_last_direction |-> None]
NoRandomDFS == [stack |-> <<>>]

GenDims == {d \in (2..GenMaxCells) \X (2..GenMaxCells) : d[1] * d[2] <= GenMaxCells}

\* main: Maze::new(width, height), then Wilson::new(maze.get_bounds())
GenInit ==
    /\ \E d \in GenDims :
        /\ maze = new_maze(d[1], d[2])
        /\ \E start \in Positions(maze), end \in Positions(maze) :
            /\ end # start
            /\ wilson = wilson_new(start, end)
    /\ random_dfs = NoRandomDFS
    /\ gen_ret = "new"
    /\ alg = "none"
    /\ solver = NoSolver
    /\ sol_ret = NoRet
    /\ data = <<>>
    /\ decoded = NoDecoded
    /\ op = NoOp

\* step on an empty walk: return true
GenStepDone ==
    /\ gen_ret # "panic"
    /\ wilson.walk = <<>>
    /\ gen_ret' = "true"
    /\ op' = [NoOp EXCEPT !.name = "step_done"]
    /\ UNCHANGED <<maze, wilson, random_dfs, alg, solver, sol_ret, data, decoded>>

\* step on a non-empty walk
GenStepWalk ==
    /\ gen_ret # "panic"
    /\ wilson.walk # <<>>
    /\ \E next \in step_choices(wilson, maze) :
        \E pick \in pick_range(wilson, maze, next) :
            LET r == wilson_step(wilson, maze, next, pick)
            IN  /\ wilson' = r.w
                /\ maze' = r.m
                /\ gen_ret' = r.ret
                /\ op' = [NoOp EXCEPT !.name = "step", !.x = next[1], !.y = next[2],
                                      !.dir = next[3]]
    /\ UNCHANGED <<random_dfs, alg, solver, sol_ret, data, decoded>>

GenNext == GenStepDone \/ GenStepWalk

SpecGen == GenInit /\ [][GenNext]_vars

(***************************************************************************)
(* The generator on any grid of positive width and height, its             *)
(* construction being a step of its own.  A draw that a loop of the code   *)
(* rejects changes nothing and is drawn again: Wilson::new leaves its loop *)
(* with an end different from the start, step leaves its loop with a       *)
(* neighbor of step_choices, and neither returns while no draw is accepted.*)
(***************************************************************************)
GenAnyDims ==
    {d \in (1..GenAnyMaxCells) \X (1..GenAnyMaxCells) : d[1] * d[2] <= GenAnyMaxCells}

\* the ends the loop of Wilson::new can leave with
new_choices(m, start) == {end \in Positions(m) : ~(end[1] = start[1] /\ end[2] = start[2])}

\* main: Maze::new(width, height); Wilson::new has not returned yet
GenAnyInit ==
    /\ \E d \in GenAnyDims : maze = new_maze(d[1], d[2])
    /\ wilson = NoWilson
    /\ random_dfs = NoRandomDFS
    /\ gen_ret = "init"
    /\ alg = "none"
    /\ solver = NoSolver
    /\ sol_ret = NoRet
    /\ data = <<>>
    /\ decoded = NoDecoded
    /\ op = NoOp

\* Wilson::new(maze.get_bounds()) returns
GenNew ==
    /\ gen_ret = "init"
    /\ \E start \in Positions(maze) :
        \E end \in new_choices(maze, start) :
            wilson' = wilson_new(start, end)
    /\ gen_ret' = "new"
    /\ UNCHANGED <<random_dfs, maze, alg, solver, sol_ret, data, decoded, op>>

GenAnyStepDone == gen_ret # "init" /\ GenStepDone

GenAnyStepWalk == gen_ret # "init" /\ GenStepWalk

GenAnyNext == GenNew \/ GenAnyStepDone \/ GenAnyStepWalk

SpecGenAny == GenAnyInit /\ [][GenAnyNext]_vars

\* C15: for every grid of positive width and height, width 1 and height 1
\* included, constructing the Wilson generator returns, and in every reachable
\* generator state a call of step returns after finitely many random draws:
\* each of the two redraw loops has a draw that it accepts.
C15_ConstructAndStepReturn ==
    /\ gen_ret = "init" =>
            \E start \in Positions(maze) : new_choices(maze, start) # {}
    /\ (gen_ret \in {"new", "false"} /\ wilson.walk # <<>>) =>
            step_choices(wilson, maze) # {}

(***************************************************************************)
(* RandomDFS (src/maze/generators.rs), the library's other generator.  The *)
(* binary constructs Wilson only; RandomDFS is run here on its own, from   *)
(* an empty grid of any dimensions, its construction being a step.         *)
(***************************************************************************)
\* RandomDFS::new: a stack holding one random position
random_dfs_new(start) == [stack |-> <<start>>]

\* neighbors.iter().filter(|(x, y, _)| maze.get(*x, *y) == 0)
random_dfs_possible_next(m, pos) ==
    LET uncarved(n) == get(m, n[1], n[2]) = 0
    IN  SelectSeq(get_neighbors(m, pos), uncarved)

\* the values rng().random_range(..possible_next.len()) can return
random_dfs_pick_range(s, m) ==
    IF s.stack = <<>> THEN {0}
    ELSE LET n == Len(random_dfs_possible_next(m, s.stack[Len(s.stack)]))
         IN  IF n = 0 THEN {0} ELSE 0..(n - 1)

\* RandomDFS::step; pick is the random index drawn when the stack is extended.
\* The outcome is [s, m, ret]: the generator, the grid and the value returned.
random_dfs_step(s, m, pick) ==
    IF s.stack = <<>> THEN [s |-> s, m |-> m, ret |-> "true"]
    ELSE LET pos == s.stack[Len(s.stack)]
             unvisited == random_dfs_possible_next(m, pos)
         IN  IF Len(unvisited) = 0
             THEN LET popped == SubSeq(s.stack, 1, Len(s.stack) - 1)
                  IN  [s |-> [s EXCEPT !.stack = popped],
                       m |-> m,
                       ret |-> IF Len(popped) = 0 THEN "true" ELSE "false"]
             ELSE LET next == unvisited[pick + 1]
                  IN  [s |-> [s EXCEPT !.stack = Append(@, <<next[1], next[2]>>)],
                       m |-> carve(m, pos[1], pos[2], next[3]),
                       ret |-> "false"]

\* the grids RandomDFS is run on: Maze::new takes any u16 width and height, 0 included
RandomDFSDims ==
    {d \in (0..RandomDFSMaxCells) \X (0..RandomDFSMaxCells) : d[1] * d[2] <= RandomDFSMaxCells}

RandomDFSInit ==
    /\ \E d \in RandomDFSDims : maze = new_maze(d[1], d[2])
    /\ wilson = NoWilson
    /\ random_dfs = NoRandomDFS
    /\ gen_ret = "init"
    /\ alg = "none"
    /\ solver = NoSolver
    /\ sol_ret = NoRet
    /\ data = <<>>
    /\ decoded = NoDecoded
    /\ op = NoOp

\* RandomDFS::new(maze.get_bounds()): random_range(0..0) panics on an empty range
RandomDFSNew ==
    /\ gen_ret = "init"
    /\ IF maze.width = 0 \/ maze.height = 0
       THEN random_dfs' = random_dfs /\ gen_ret' = "panic"
       ELSE /\ \E start \in Positions(maze) : random_dfs' = random_dfs_new(start)
            /\ gen_ret' = "new"
    /\ UNCHANGED <<maze, wilson, alg, solver, sol_ret, data, decoded, op>>

\* generator.step(&mut maze)
RandomDFSStep ==
    /\ gen_ret \notin {"init", "panic"}
    /\ \E pick \in random_dfs_pick_range(random_dfs, maze) :
        LET r == random_dfs_step(random_dfs, maze, pick)
        IN  /\ random_dfs' = r.s
            /\ maze' = r.m
            /\ gen_ret' = r.ret
            /\ op' = [NoOp EXCEPT !.name = "step", !.ret = pick]
    /\ UNCHANGED <<wilson, alg, solver, sol_ret, data, decoded>>

RandomDFSNext == RandomDFSNew \/ RandomDFSStep

SpecRandomDFS == RandomDFSInit /\ [][RandomDFSNext]_vars

(***************************************************************************)
(* Properties of the generator.                                            *)
(***************************************************************************)
\* the open passage pairs: adjacent cells each holding the bit toward the other
\* (each pair is listed once, from its left or upper cell)
OpenPairs(m) ==
    {e \in Positions(m) \X {RIGHT, DOWN} :
        LET t == neighbor_at(e[2], e[1][1], e[1][2])
        IN  /\ InBounds(m, t[1], t[2])
            /\ HasBit(get(m, e[1][1], e[1][2]), e[2])
            /\ HasBit(get(m, t[1], t[2]), opposite(e[2]))}

RECURSIVE ReachFrom(_, _)
\* the cells reachable from the cells of seen through open passages
ReachFrom(m, seen) ==
    LET more == UNION {SeqToSet(get_travellable_neighbors(m, p)) : p \in seen}
    IN  IF more \subseteq seen THEN seen ELSE ReachFrom(m, seen \cup more)

Reachable(m, from) == ReachFrom(m, {from})

IsSpanningTree(m) ==
    /\ Cardinality(OpenPairs(m)) = m.width * m.height - 1
    /\ Reachable(m, <<0, 0>>) = Positions(m)

\* C1: when the Wilson generator's step returns true on a grid that started
\* empty, the grid is a spanning tree: exactly W*H - 1 open passage pairs and
\* every cell reachable from (0,0).
C1_SpanningTree == gen_ret = "true" => IsSpanningTree(maze)

\* generation has completed on a 3 x 3 grid
C1_Witness == gen_ret = "true" /\ maze.width = 3 /\ maze.height = 3

\* the cells with a non-zero bitmask
Carved(m) == {p \in Positions(m) : get(m, p[1], p[2]) # 0}

\* C14: starting from an empty grid with W >= 2 and H >= 2, a call of the
\* generator's step returns true if and only if, after that call, every cell
\* of the grid has a non-zero bitmask.
C14_DoneIffAllCarved ==
    gen_ret \in {"true", "false"} =>
        (gen_ret = "true" <=> Carved(maze) = Positions(maze))

\* a step has committed a walk and returned false with one cell left to carve
C14_Witness ==
    /\ gen_ret = "false"
    /\ Cardinality(Carved(maze)) = maze.width * maze.height - 1
    /\ Len(wilson.walk) = 1

\* C22: when the neighbor chosen in a generator step already appears in the
\* current walk at index i, the step truncates the walk to its first i+1
\* positions, which it keeps as they are, and returns false.
C22_LoopErasure ==
    [][(gen_ret # "panic" /\ wilson.walk # <<>> /\ op'.name = "step") =>
        \A i \in 0..(Len(wilson.walk) - 1) :
            wilson.walk[i + 1] = <<op'.x, op'.y>> =>
                /\ wilson'.walk = SubSeq(wilson.walk, 1, i + 1)
                /\ gen_ret' = "false"]_vars

\* on a grid of width 3 a step has chosen the first cell of the walk again and
\* left the walk with that cell alone
C22_Witness ==
    /\ op.name = "step"
    /\ gen_ret = "false"
    /\ wilson.walk = << <<op.x, op.y>> >>
    /\ wilson.opposite_of_last_direction # None
    /\ maze.width = 3

\* whether the step that chose neighbor next from the state commits the walk
CommitStep(next) ==
    /\ next \notin SeqToSet(wilson.walk)
    /\ \/ maze.cells[next[2] * maze.width + next[1] + 1] # 0
       \/ wilson.first_walk_target = <<next>>

\* C23: a generator step changes the grid only when it commits (the appended
\* neighbor has a non-zero bitmask or is the first-walk target): every loop
\* erasure and every plain extension leaves every cell as it is, and a commit
\* only sets bits.
C23_GridChangesOnlyOnCommit ==
    [][/\ ~(/\ op'.name = "step"
            /\ wilson.walk # <<>>
            /\ CommitStep(<<op'.x, op'.y>>)) => maze' = maze
       /\ maze'.width = maze.width /\ maze'.height = maze.height
       /\ \A i \in 1..Len(maze.cells) : \A d \in Direction :
            HasBit(maze.cells[i], d) => HasBit(maze'.cells[i], d)]_vars

\* a step has committed a walk onto a cell that was carved before and now has
\* three passages
C23_Witness ==
    /\ op.name = "step"
    /\ wilson.first_walk_target = None
    /\ get(maze, op.x, op.y) \in {7, 11, 13, 14}
    /\ Len(wilson.walk) = 1

\* C26: once a generator step has returned true the walk is empty, and every
\* later step returns true and leaves the grid and the walk as they are.
C26_DoneIsStable ==
    [][gen_ret = "true" =>
        /\ wilson.walk = <<>>
        /\ gen_ret' = "true"
        /\ maze' = maze
        /\ wilson'.walk = wilson.walk]_vars

\* step has been called again after generation completed
C26_Witness ==
    /\ gen_ret = "true"
    /\ op.name = "step_done"
    /\ wilson.walk = <<>>

\* C28: starting from an empty grid with W >= 2 and H >= 2, in every state
\* between generator steps the walk is a simple path of uncarved cells: its
\* positions are in bounds, none occurs twice, consecutive ones are adjacent
\* in the grid and each has bitmask 0; and no carve of a commit has travelled
\* off an edge.
C28_WalkIsSimpleUncarvedPath ==
    /\ gen_ret # "panic"
    /\ \A i \in 1..Len(wilson.walk) :
        /\ wilson.walk[i][1] \in 0..(maze.width - 1)
        /\ wilson.walk[i][2] \in 0..(maze.height - 1)
        /\ maze.cells[wilson.walk[i][2] * maze.width + wilson.walk[i][1] + 1] = 0
        /\ \A j \in 1..Len(wilson.walk) : i # j => wilson.walk[i] # wilson.walk[j]
        /\ i > 1 =>
              LET a == wilson.walk[i - 1]
                  b == wilson.walk[i]
                  dx == IF a[1] >= b[1] THEN a[1] - b[1] ELSE b[1] - a[1]
                  dy == IF a[2] >= b[2] THEN a[2] - b[2] ELSE b[2] - a[2]
              IN  dx + dy = 1

\* a walk of five cells is under way next to cells that are already carved
C28_Witness ==
    /\ Len(wilson.walk) = 5
    /\ wilson.first_walk_target = None
    /\ Carved(maze) # {}

\* the cells whose choice commits a walk: the carved ones and the first-walk target
CommitCells(w, m) == Carved(m) \cup SeqToSet(w.first_walk_target)

\* the distance, in grid steps, from a cell to the nearest of the given cells
Distance(p, cells) ==
    LET ds == {(IF p[1] >= c[1] THEN p[1] - c[1] ELSE c[1] - p[1])
               + (IF p[2] >= c[2] THEN p[2] - c[2] ELSE c[2] - p[2]) : c \in cells}
    IN  CHOOSE k \in ds : \A o \in ds : k <= o

\* a run of draws chosen so as to finish: among the neighbors the redraw loop
\* can leave with, the one nearest to a cell that commits (of several, the one
\* of the lowest direction value), and index 0 in create_new_walk; whether the
\* neighbor is appended or a loop erased, the walk then ends at that neighbor
Heading(w, m) ==
    LET choices == step_choices(w, m)
        cells == CommitCells(w, m)
        score == [n \in choices |-> 16 * Distance(<<n[1], n[2]>>, cells) + n[3]]
    IN  CHOOSE n \in choices : \A o \in choices : score[n] <= score[o]

RECURSIVE CompletesWithin(_, _, _)
\* whether the run of Heading draws, of at most fuel steps, ends with step
\* returning true
CompletesWithin(w, m, fuel) ==
    IF w.walk = <<>> THEN TRUE
    ELSE IF fuel = 0 \/ step_choices(w, m) = {} THEN FALSE
    ELSE LET r == wilson_step(w, m, Heading(w, m), 0)
         IN  \/ r.ret = "true"
             \/ r.ret = "false" /\ CompletesWithin(r.w, r.m, fuel - 1)

\* C24: starting from an empty grid with W >= 2 and H >= 2, from every
\* reachable generator state a state in which step has returned true is
\* reachable (so that under fair random draws repeated steps end in true):
\* a run of at most 4 * W * H draws from the state ends so.
C24_CompletionReachable ==
    gen_ret # "panic" => CompletesWithin(wilson, maze, 4 * maze.width * maze.height)

\* on a 3 x 3 grid a loop has just been erased down to the first cell of the
\* walk, no cell is carved yet, and the run of Heading draws completes
C24_Witness ==
    /\ maze.width = 3 /\ maze.height = 3
    /\ gen_ret = "false"
    /\ Carved(maze) = {}
    /\ Len(wilson.walk) = 1
    /\ wilson.opposite_of_last_direction # None
    /\ CompletesWithin(wilson, maze, 36)

\* the two cells an open passage pair joins
PairEnds(e) == {e[1], neighbor_at(e[2], e[1][1], e[1][2])}

RECURSIVE Joined(_, _)
\* the cells joined to the cells of seen by a chain of the given passage pairs
Joined(pairs, seen) ==
    LET more == UNION {PairEnds(e) : e \in {f \in pairs : PairEnds(f) \cap seen # {}}}
    IN  IF more \subseteq seen THEN seen ELSE Joined(pairs, seen \cup more)

\* C17: starting from an empty grid with W >= 2 and H >= 2, in every state
\* between generator steps after at least one commit, the cells with a non-zero
\* bitmask form a tree: they are connected through open passages and the
\* number of open passage pairs is the number of non-zero cells minus 1.
C17_CarvedCellsFormTree ==
    Carved(maze) # {} =>
        LET pairs == OpenPairs(maze)
            carved == Carved(maze)
        IN  /\ Cardinality(pairs) = Cardinality(carved) - 1
            /\ Joined(pairs, {CHOOSE p \in carved : TRUE}) = carved

\* on a 3 x 3 grid a walk has been committed, at least four cells are carved
\* and a later walk of more than one cell is under way
C17_Witness ==
    /\ maze.width = 3 /\ maze.height = 3
    /\ gen_ret = "false"
    /\ wilson.first_walk_target = None
    /\ Cardinality(Carved(maze)) \in 4..8
    /\ Len(wilson.walk) > 1

Symmetric(m) ==
    \A p \in Positions(m), d \in Direction :
        LET t == neighbor_at(d, p[1], p[2])
        IN  InBounds(m, t[1], t[2]) =>
                (HasBit(get(m, p[1], p[2]), d)
                    <=> HasBit(get(m, t[1], t[2]), opposite(d)))

\* C2: in every state the generator reaches from an empty grid, passages are
\* symmetric: a cell has the bit toward an in-bounds neighbor exactly when the
\* neighbor has the opposite bit.
C2_PassagesSymmetric == Symmetric(maze)

\* a walk has been committed and generation goes on
C2_Witness ==
    /\ gen_ret = "false"
    /\ wilson.first_walk_target = None
    /\ \E i \in 1..Len(maze.cells) : maze.cells[i] # 0

(***************************************************************************)
(* The solvers (src/maze/solvers.rs).  A step's outcome is a record        *)
(* [s, ret]: the solver's state after the call and what the call returned  *)
(* (kind "None", or "Some" with the path), or kind "panic".                *)
(***************************************************************************)
RetNone == [kind |-> "None", path |-> <<>>]
RetSome(path) == [kind |-> "Some", path |-> path]
RetPanic == [kind |-> "panic", path |-> <<>>]

\* Vec::reverse
Reverse(q) == [i \in 1..Len(q) |-> q[Len(q) + 1 - i]]

\* HashMap / BTreeMap as functions: new, insert (which replaces), remove
EmptyMap == [p \in {} |-> None]
MapInsert(map, key, value) == [p \in DOMAIN map \cup {key} |-> IF p = key THEN value ELSE map[p]]
MapRemove(map, key) == [p \in DOMAIN map \ {key} |-> map[p]]

\* (0..neighbors.1).filter_map(...): the neighbors that are not among seen, in order
not_seen(neighbors, seen) ==
    LET fresh(n) == n \notin seen
    IN  SelectSeq(neighbors, fresh)

(* DFSSolver *)
dfs_new(bounds) ==
    [visited |-> {},
     path |-> << <<0, 0>> >>,
     end |-> <<bounds[1] - 1, bounds[2] - 1>>]

\* a faulty step: visited receives the cell only when the path is extended, so
\* that a dead end backed out of is not remembered
dfs_step_forgets_dead_ends(s, m) ==
    IF s.path = <<>> THEN [s |-> s, ret |-> RetPanic]
    ELSE LET pos == s.path[Len(s.path)]
         IN  IF pos = s.end THEN [s |-> s, ret |-> RetSome(s.path)]
             ELSE LET neighbors == get_travellable_neighbors(m, pos)
                      next == not_seen(neighbors, s.visited)
                  IN  [s |-> [s EXCEPT !.visited = IF next # <<>> THEN @ \cup {pos} ELSE @,
                                       !.path = IF next # <<>>
                                                THEN Append(@, next[1])
                                                ELSE SubSeq(@, 1, Len(@) - 1)],
                       ret |-> RetNone]

\* a faulty step: visited receives the cell moved to in place of the cell moved from
dfs_step_marks_next(s, m) ==
    IF s.path = <<>> THEN [s |-> s, ret |-> RetPanic]
    ELSE LET pos == s.path[Len(s.path)]
         IN  IF pos = s.end THEN [s |-> s, ret |-> RetSome(s.path)]
             ELSE LET neighbors == get_travellable_neighbors(m, pos)
                      next == not_seen(neighbors, s.visited)
                  IN  [s |-> [s EXCEPT !.visited = IF next # <<>> THEN @ \cup {next[1]} ELSE @,
                                       !.path = IF next # <<>>
                                                THEN Append(@, next[1])
                                                ELSE SubSeq(@, 1, Len(@) - 1)],
                       ret |-> RetNone]

dfs_step(s, m) ==
    IF s.path = <<>> THEN [s |-> s, ret |-> RetPanic]
    ELSE LET pos == s.path[Len(s.path)]
         IN  IF pos = s.end THEN [s |-> s, ret |-> RetSome(s.path)]
             ELSE LET neighbors == get_travellable_neighbors(m, pos)
                      next == not_seen(neighbors, s.visited)
                  IN  [s |-> [s EXCEPT !.visited = @ \cup {pos},
                                       !.path = IF next # <<>>
                                                THEN Append(@, next[1])
                                                ELSE SubSeq(@, 1, Len(@) - 1)],
                       ret |-> RetNone]

(* BFSSolver *)
bfs_new(bounds) ==
    [queue |-> << <<0, 0>> >>,
     visited |-> MapInsert(EmptyMap, <<0, 0>>, None),
     path |-> <<>>,
     finished |-> FALSE,
     end |-> <<bounds[1] - 1, bounds[2] - 1>>]

\* VecDeque::pop_back on a non-empty queue (a faulty choice for the frontier)
pop_back(queue) == [head |-> queue[Len(queue)], rest |-> SubSeq(queue, 1, Len(queue) - 1)]

\* VecDeque::pop_front on a non-empty queue
pop_front(queue) == [head |-> queue[1], rest |-> Tail(queue)]

\* VecDeque::push_front (a faulty choice for the frontier)
push_front(queue, v) == <<v>> \o queue

\* VecDeque::push_back
push_back(queue, v) == Append(queue, v)

RECURSIVE bfs_chain(_, _)
\* the positions the reconstruction loop pushes: pos, its predecessor, ... up
\* to the one whose predecessor is None
bfs_chain(visited, pos) ==
    <<pos>> \o (IF visited[pos] = None THEN <<>> ELSE bfs_chain(visited, visited[pos][1]))

\* a faulty completion: finished is not set
bfs_finish_no_flag(s, pos) ==
    [s EXCEPT !.path = Reverse(s.path \o bfs_chain(s.visited, pos))]

\* the end was dequeued: set finished, push the chain onto path, reverse path
bfs_finish(s, pos) ==
    [s EXCEPT !.finished = TRUE,
              !.path = Reverse(s.path \o bfs_chain(s.visited, pos))]

RECURSIVE bfs_enqueue(_, _, _, _)
\* for next_pos in next: visited.insert(next_pos, Some(pos)); queue.push_back(next_pos)
bfs_enqueue(s, next, i, pos) ==
    IF i > Len(next) THEN s
    ELSE bfs_enqueue([s EXCEPT !.visited = MapInsert(@, next[i], Some(pos)),
                               !.queue = push_back(@, next[i])],
                     next, i + 1, pos)

bfs_step(s, m) ==
    IF s.finished THEN [s |-> s, ret |-> RetSome(s.path)]
    ELSE IF s.queue = <<>> THEN [s |-> s, ret |-> RetPanic]
    ELSE LET front == pop_front(s.queue)
             pos == front.head
             s1 == [s EXCEPT !.queue = front.rest]
         IN  IF pos = s.end
             THEN LET s2 == bfs_finish(s1, pos)
                  IN  [s |-> s2, ret |-> RetSome(s2.path)]
             ELSE LET neighbors == get_travellable_neighbors(m, pos)
                      next == not_seen(neighbors, DOMAIN s1.visited)
                  IN  [s |-> bfs_enqueue(s1, next, 1, pos), ret |-> RetNone]

(* AStarSolver *)
abs_diff(a, b) == IF a >= b THEN a - b ELSE b - a

CellInformation(f_cost, h_cost, from) == [f_cost |-> f_cost, h_cost |-> h_cost, from |-> from]

astar_new(bounds) ==
    [open |-> MapInsert(EmptyMap, <<0, 0>>, CellInformation(usize(bounds[1] + bounds[2]), usize(0), None)),
     closed |-> EmptyMap,
     end |-> <<bounds[1] - 1, bounds[2] - 1>>,
     path |-> <<>>]

\* the order of (usize, usize) keys in a BTreeMap
key_less(a, b) == a[1] < b[1] \/ (a[1] = b[1] /\ a[2] < b[2])

RECURSIVE sorted_keys(_)
\* the keys of a BTreeMap in iteration order
sorted_keys(keys) ==
    IF keys = {} THEN <<>>
    ELSE LET first == CHOOSE k \in keys : \A o \in keys \ {k} : key_less(k, o)
         IN  <<first>> \o sorted_keys(keys \ {first})

RECURSIVE astar_scan(_, _, _, _)
\* the loop over open.iter() from the i-th key on, with current_data being cur
astar_scan(open_map, keys, i, cur) ==
    IF i > Len(keys) THEN cur
    ELSE LET info == open_map[keys[i]]
         IN  astar_scan(open_map, keys, i + 1,
                IF \/ usize_lt(info.f_cost, cur.info.f_cost)
                   \/ (info.f_cost = cur.info.f_cost /\ usize_le(info.h_cost, cur.info.h_cost))
                THEN [pos |-> keys[i], info |-> info]
                ELSE cur)

\* current_data after the loop; it starts as ((1, 1), {None, usize::MAX, usize::MAX})
astar_current(open_map) ==
    astar_scan(open_map, sorted_keys(DOMAIN open_map), 1,
               [pos |-> <<1, 1>>, info |-> CellInformation(USIZE_MAX, USIZE_MAX, None)])

RECURSIVE astar_chain(_, _)
astar_chain(closed, pos) ==
    <<pos>> \o (IF closed[pos].from = None THEN <<>>
                ELSE astar_chain(closed, closed[pos].from[1]))

\* a faulty loop body: open.insert in place of open.entry().or_insert, which
\* replaces the entry of a neighbor that open already holds
astar_visit_insert(s, neighbor, current_pos, current) ==
    IF neighbor \in DOMAIN s.closed THEN s
    ELSE LET g_cost == wrapping_add(current.h_cost, usize(1))
             h_cost == usize(abs_diff(current_pos[1], s.end[1]) + abs_diff(current_pos[2], s.end[2]))
             f_cost == wrapping_add(g_cost, h_cost)
             info == CellInformation(f_cost, h_cost, Some(current_pos))
         IN  [s EXCEPT !.open = MapInsert(@, neighbor, info)]

\* the body of the loop over the travellable neighbors, for one neighbor
astar_visit(s, neighbor, current_pos, current) ==
    IF neighbor \in DOMAIN s.closed THEN s
    ELSE LET g_cost == wrapping_add(current.h_cost, usize(1))
             h_cost == usize(abs_diff(current_pos[1], s.end[1]) + abs_diff(current_pos[2], s.end[2]))
             f_cost == wrapping_add(g_cost, h_cost)
             info == CellInformation(f_cost, h_cost, Some(current_pos))
         IN  IF neighbor \in DOMAIN s.closed /\ usize_lt(h_cost, s.closed[neighbor].h_cost)
             THEN [s EXCEPT !.closed = MapInsert(@, neighbor, info)]
             ELSE IF neighbor \in DOMAIN s.open THEN s
             ELSE [s EXCEPT !.open = MapInsert(@, neighbor, info)]

RECURSIVE astar_visit_all(_, _, _, _, _)
astar_visit_all(s, neighbors, i, current_pos, current) ==
    IF i > Len(neighbors) THEN s
    ELSE astar_visit_all(astar_visit(s, neighbors[i], current_pos, current),
                         neighbors, i + 1, current_pos, current)

\* AStarSolver::step; overflow_checks tells whether the build panics on integer
\* overflow (a debug build) or wraps (a release build)
astar_step(s, m, overflow_checks) ==
    IF s.path # <<>> THEN [s |-> s, ret |-> RetSome(s.path)]
    ELSE LET cur == astar_current(s.open)
             s1 == [s EXCEPT !.closed = MapInsert(@, cur.pos, cur.info),
                             !.open = MapRemove(@, cur.pos)]
         IN  IF cur.pos = s.end
             THEN LET s2 == [s1 EXCEPT !.path = Reverse(@ \o astar_chain(s1.closed, cur.pos))]
                  IN  [s |-> s2, ret |-> RetSome(s2.path)]
             ELSE IF ~InBounds(m, cur.pos[1], cur.pos[2])
             THEN [s |-> s1, ret |-> RetPanic]
             ELSE LET neighbors == get_travellable_neighbors(m, cur.pos)
                  IN  IF /\ overflow_checks
                         /\ add_overflows(cur.info.h_cost, usize(1))
                         /\ not_seen(neighbors, DOMAIN s1.closed) # <<>>
                      THEN [s |-> s1, ret |-> RetPanic]
                      ELSE [s |-> astar_visit_all(s1, neighbors, 1, cur.pos, cur.info),
                            ret |-> RetNone]

(***************************************************************************)
(* The solvers on given grids.                                             *)
(***************************************************************************)
SolveDims(maxCells) == {d \in (1..maxCells) \X (1..maxCells) : d[1] * d[2] <= maxCells}

\* the half passages a grid of dimensions dims can hold: a cell and a direction
\* toward a neighbor in bounds
HalfPassages(dims) ==
    {h \in ((0..(dims[1] - 1)) \X (0..(dims[2] - 1))) \X Direction :
        LET t == neighbor_at(h[2], h[1][1], h[1][2])
        IN  t[1] >= 0 /\ t[2] >= 0 /\ t[1] < dims[1] /\ t[2] < dims[2]}

\* the grid in which exactly the given half passages are open
GridOfHalfPassages(dims, halves) ==
    [width |-> dims[1], height |-> dims[2],
     cells |-> [i \in 1..(dims[1] * dims[2]) |->
        LET pos == <<(i - 1) % dims[1], (i - 1) \div dims[1]>>
            bit(d) == IF <<pos, d>> \in halves THEN d ELSE 0
        IN  bit(UP) + bit(RIGHT) + bit(DOWN) + bit(LEFT)]]

\* both halves of each of the given passages (each named from its left or upper cell)
BothHalves(passages) ==
    passages \cup {<<neighbor_at(e[2], e[1][1], e[1][2]), opposite(e[2])>> : e \in passages}

\* the grid with every cell 0b1111
AllOpenGrid(dims) ==
    [width |-> dims[1], height |-> dims[2], cells |-> [i \in 1..(dims[1] * dims[2]) |-> 15]]

solver_new(a, bounds) ==
    CASE a = "dfs" -> dfs_new(bounds)
      [] a = "bfs" -> bfs_new(bounds)
      [] a = "astar" -> astar_new(bounds)

\* a grid and a solver constructed on its bounds: DFSSolver::new, BFSSolver::new
\* or AStarSolver::new(maze.get_bounds()).  The grids are those the library's
\* callers can hold, the 1 x 1 grids among them; the binary reaches a solver
\* only on a grid on which Wilson::new has returned, which leaves out 1 x 1.
SolveInit ==
    /\ \/ \E d \in SolveDims(SolveMaxCells) :
            \E passages \in SUBSET {h \in HalfPassages(d) : h[2] \in {RIGHT, DOWN}} :
                maze = GridOfHalfPassages(d, BothHalves(passages))
       \/ \E d \in SolveDims(SolveOneWayMaxCells) :
            \E halves \in SUBSET HalfPassages(d) :
                maze = GridOfHalfPassages(d, halves)
       \/ \E d \in SolveDims(SolveMaxCells) : maze = AllOpenGrid(d)
    /\ alg \in {"dfs", "bfs", "astar"}
    /\ solver = solver_new(alg, get_bounds(maze))
    /\ sol_ret = NoRet
    /\ wilson = NoWilson
    /\ random_dfs = NoRandomDFS
    /\ gen_ret = "true"
    /\ data = <<>>
    /\ decoded = NoDecoded
    /\ op = NoOp

\* the solver's step, called again after any return (also after a path)
Returned(r) ==
    /\ solver' = r.s
    /\ sol_ret' = [kind |-> r.ret.kind, path |-> r.ret.path, repeat |-> sol_ret.kind = "Some"]
    /\ UNCHANGED <<maze, wilson, random_dfs, gen_ret, alg, data, decoded, op>>

DFSStep ==
    /\ alg = "dfs"
    /\ sol_ret.kind # "panic"
    /\ Returned(dfs_step(solver, maze))

BFSStep ==
    /\ alg = "bfs"
    /\ sol_ret.kind # "panic"
    /\ Returned(bfs_step(solver, maze))

AStarStep ==
    /\ alg = "astar"
    /\ sol_ret.kind # "panic"
    /\ \E overflow_checks \in BOOLEAN : Returned(astar_step(solver, maze, overflow_checks))

SolveNext == DFSStep \/ BFSStep \/ AStarStep

SpecSolve == SolveInit /\ [][SolveNext]_vars

(***************************************************************************)
(* Properties of the solvers.                                              *)
(***************************************************************************)
\* the goal every solver is constructed with
Goal(m) == <<m.width - 1, m.height - 1>>

\* C5: whenever a solver's step returns a path, the path starts at (0,0) and
\* ends at (width-1, height-1), whether or not the goal is reachable.
C5_PathFromStartToGoal ==
    sol_ret.kind = "Some" =>
        /\ sol_ret.path # <<>>
        /\ sol_ret.path[1] = <<0, 0>>
        /\ sol_ret.path[Len(sol_ret.path)] = Goal(maze)

\* C6: once step has returned a path, every later step returns the same path
\* and leaves the solver's own state unchanged.
C6_StepIdempotentAfterPath ==
    [][sol_ret.kind = "Some" =>
        /\ sol_ret'.kind = "Some"
        /\ sol_ret'.path = sol_ret.path
        /\ solver' = solver]_vars

\* step has been called again after a path of several cells was returned
C6_Witness ==
    /\ sol_ret.kind = "Some"
    /\ sol_ret.repeat
    /\ Len(sol_ret.path) > 2

RECURSIVE EdgesTo(_, _, _, _)
\* the least number of passages to cross from the cells of seen to the cell to,
\* counting from k; -1 if there is no route
EdgesTo(m, seen, to, k) ==
    IF to \in seen THEN k
    ELSE LET more == seen \cup UNION {SeqToSet(get_travellable_neighbors(m, p)) : p \in seen}
         IN  IF more = seen THEN -1 ELSE EdgesTo(m, more, to, k + 1)

\* C7: the path the BFS solver returns has the minimum number of edges among
\* the routes from (0,0) to the goal; on the 3 x 3 grid with every cell 0b1111
\* it has exactly 5 coordinates.
C7_BFSShortest ==
    (alg = "bfs" /\ sol_ret.kind = "Some") =>
        /\ Len(sol_ret.path) - 1 = EdgesTo(maze, {<<0, 0>>}, Goal(maze), 0)
        /\ (maze = AllOpenGrid(<<3, 3>>) => Len(sol_ret.path) = 5)

\* BFS has returned its path on the 3 x 3 grid with every cell 0b1111
C7_Witness ==
    /\ alg = "bfs"
    /\ sol_ret.kind = "Some"
    /\ maze = AllOpenGrid(<<3, 3>>)

RECURSIVE bfs_run(_, _)
\* the BFS solver stepped until it returns something other than None
bfs_run(s, m) ==
    LET r == bfs_step(s, m)
    IN  IF r.ret.kind = "None" THEN bfs_run(r.s, m) ELSE r.ret

\* C8: on a grid whose goal is reachable, the path of the BFS solver run to
\* completion is no longer than the path of the DFS solver run to completion.
C8_BFSNoLongerThanDFS ==
    (alg = "dfs" /\ sol_ret.kind = "Some") =>
        LET b == bfs_run(bfs_new(get_bounds(maze)), maze)
        IN  /\ b.kind = "Some"
            /\ Len(b.path) <= Len(sol_ret.path)

\* DFS has returned a path that is strictly longer than the one BFS returns
C8_Witness ==
    /\ alg = "dfs"
    /\ sol_ret.kind = "Some"
    /\ Len(bfs_run(bfs_new(get_bounds(maze)), maze).path) < Len(sol_ret.path)

\* the directions of order, kept in order, that lead from the end of the DFS
\* path through an open passage to a cell of the grid that is not in visited
dfs_open_directions(order) ==
    LET pos == solver.path[Len(solver.path)]
        ok(d) == /\ HasBit(get(maze, pos[1], pos[2]), d)
                 /\ InBounds(maze, neighbor_at(d, pos[1], pos[2])[1], neighbor_at(d, pos[1], pos[2])[2])
                 /\ neighbor_at(d, pos[1], pos[2]) \notin solver.visited
    IN  SelectSeq(order, ok)

\* in a DFS step that extends the path, the pushed cell is the first unvisited
\* travellable neighbor of the path's end in the given order of directions; and
\* on the 3 x 3 all-open grid the path DFS returns is route
dfs_follows(order, route) ==
    alg = "dfs" =>
        /\ Len(solver'.path) = Len(solver.path) + 1 =>
              LET pos == solver.path[Len(solver.path)]
                  dirs == dfs_open_directions(order)
              IN  /\ dirs # <<>>
                  /\ solver'.path[Len(solver'.path)] = neighbor_at(dirs[1], pos[1], pos[2])
        /\ (maze = AllOpenGrid(<<3, 3>>) /\ sol_ret'.kind = "Some") => sol_ret'.path = route

\* C18 as stated: in every DFS step that extends the path, the pushed cell is
\* the first unvisited travellable neighbor of path.last() in the order UP,
\* RIGHT, DOWN, LEFT, so that on the 3 x 3 all-open grid the DFS route is the
\* one that order gives.
C18_DFSOrderUpRightDownLeft ==
    [][dfs_follows(<<UP, RIGHT, DOWN, LEFT>>,
                   << <<0, 0>>, <<1, 0>>, <<2, 0>>, <<2, 1>>, <<2, 2>> >>)]_vars

\* C18, amended: in every DFS step that extends the path, the pushed cell is
\* the first unvisited travellable neighbor of path.last() in the order LEFT,
\* RIGHT, UP, DOWN, so that on the 3 x 3 all-open grid the DFS route is
\* (0,0) (1,0) (2,0) (2,1) (1,1) (0,1) (0,2) (1,2) (2,2).
C18_DFSOrderLeftRightUpDown ==
    [][dfs_follows(<<LEFT, RIGHT, UP, DOWN>>,
                   << <<0, 0>>, <<1, 0>>, <<2, 0>>, <<2, 1>>, <<1, 1>>,
                      <<0, 1>>, <<0, 2>>, <<1, 2>>, <<2, 2>> >>)]_vars

\* on the 3 x 3 all-open grid DFS stood at (2,1), next to the goal below it, and
\* pushed (1,1), the cell to its left
C18_Witness ==
    /\ alg = "dfs"
    /\ maze = AllOpenGrid(<<3, 3>>)
    /\ solver.path = << <<0, 0>>, <<1, 0>>, <<2, 0>>, <<2, 1>>, <<1, 1>> >>

\* the cost so far that an entry stands for, its f_cost being cost + heuristic
cost_so_far(info) == usize_diff(info.f_cost, info.h_cost)

\* |a.x - b.x| + |a.y - b.y|
Manhattan(a, b) == abs_diff(a[1], b[1]) + abs_diff(a[2], b[2])

\* C19: whenever an A* step inserts a travellable neighbor into open, the
\* inserted entry's cost is the popped cell's cost plus 1 (the cost being read
\* as the cost so far, or else as the stored f_cost), its heuristic is the
\* Manhattan distance from the popped cell to the goal, and its predecessor is
\* the popped cell.
C19_AStarInsertedEntry ==
    [][alg = "astar" =>
        \A p \in DOMAIN solver'.open \ DOMAIN solver.open :
            LET cur == astar_current(solver.open)
                entry == solver'.open[p]
            IN  /\ \/ cost_so_far(entry) = usize_sum(cost_so_far(cur.info), usize(1))
                   \/ entry.f_cost = usize_sum(cur.info.f_cost, usize(1))
                /\ entry.h_cost = usize(Manhattan(cur.pos, solver.end))
                /\ entry.from = Some(cur.pos)]_vars

\* C20: during an A* step, a travellable neighbor of the popped cell that is
\* already in closed with a heuristic strictly larger than the newly computed
\* one has its closed entry overwritten in place with the new cost, heuristic
\* and predecessor.
C20_ClosedEntryReopened ==
    [][(alg = "astar" /\ sol_ret'.kind = "None") =>
        LET cur == astar_current(solver.open)
            h_cost == usize(Manhattan(cur.pos, solver.end))
        IN  \A n \in SeqToSet(get_travellable_neighbors(maze, cur.pos)) :
                (n \in DOMAIN solver.closed /\ usize_lt(h_cost, solver.closed[n].h_cost)) =>
                    /\ solver'.closed[n].h_cost = h_cost
                    /\ solver'.closed[n].from = Some(cur.pos)]_vars

\* C21: an A* step never changes the cost, heuristic or predecessor of a
\* position that is already in open and is not the one the step pops: such a
\* position is still in open after the step, with the entry it had (so a
\* neighbor of the popped cell that open already holds keeps its entry).
C21_OpenEntriesKept ==
    [][alg = "astar" =>
        \A p \in DOMAIN solver.open :
            (solver.path = <<>> => p # astar_current(solver.open).pos) =>
                /\ p \in DOMAIN solver'.open
                /\ solver'.open[p] = solver.open[p]]_vars

\* on the 2 x 2 grid with every cell 0b1111, (0,1) has been popped while its
\* neighbor (1,1) was in open, entered from (1,0): (1,1) is still in open with
\* (1,0) as its predecessor
C21_Witness ==
    /\ alg = "astar"
    /\ maze = AllOpenGrid(<<2, 2>>)
    /\ <<0, 1>> \in DOMAIN solver.closed
    /\ <<1, 1>> \in DOMAIN solver.open
    /\ solver.open[<<1, 1>>].from = Some(<<1, 0>>)

\* whether a sequence of positions is a simple route of the grid: every position
\* is a cell of the grid, none occurs twice, and each one after the first is a
\* travellable neighbor of the one before it
SimpleRoute(m, route) ==
    /\ \A i \in 1..Len(route) : InBounds(m, route[i][1], route[i][2])
    /\ \A i, j \in 1..Len(route) : i # j => route[i] # route[j]
    /\ \A i \in 1..(Len(route) - 1) :
          route[i + 1] \in SeqToSet(get_travellable_neighbors(m, route[i]))

\* C30: for each of the three solvers and every grid, a path that step returns
\* is a simple route of the grid, and so is the DFS solver's path stack in
\* every state.
C30_PathsAreSimpleRoutes ==
    /\ sol_ret.kind = "Some" => SimpleRoute(maze, sol_ret.path)
    /\ alg = "dfs" => SimpleRoute(maze, solver.path)

\* DFS has returned a path of more than three cells after backing out of a
\* dead end: a visited cell is not on the path
C30_Witness ==
    /\ alg = "dfs"
    /\ sol_ret.kind = "Some"
    /\ Len(sol_ret.path) > 3
    /\ \E p \in solver.visited : p \notin SeqToSet(sol_ret.path)

\* the step of the solver chosen by --alg
solver_step(a, s, m, overflow_checks) ==
    CASE a = "dfs" -> dfs_step(s, m)
      [] a = "bfs" -> bfs_step(s, m)
      [] a = "astar" -> astar_step(s, m, overflow_checks)

RECURSIVE ReturnsPathWithin(_, _, _, _, _)
\* whether step, called again and again from the solver state s, returns a path
\* in at most calls calls, every call before it returning None
ReturnsPathWithin(a, s, m, overflow_checks, calls) ==
    /\ calls > 0
    /\ LET r == solver_step(a, s, m, overflow_checks)
       IN  \/ r.ret.kind = "Some"
           \/ r.ret.kind = "None" /\ ReturnsPathWithin(a, r.s, m, overflow_checks, calls - 1)

\* C25: on every grid whose goal is reachable from (0,0) through open
\* passages, each of the three solvers, its step called repeatedly, returns a
\* path after finitely many calls (at most 2 * width * height of them, from
\* any state the calls lead through), and no call fails on an empty path
\* stack, queue or open set.
C25_SolversReturnAPath ==
    Goal(maze) \in Reachable(maze, <<0, 0>>) =>
        /\ sol_ret.kind # "panic"
        /\ \A overflow_checks \in BOOLEAN :
              ReturnsPathWithin(alg, solver, maze, overflow_checks,
                                2 * maze.width * maze.height)

\* on a 3 x 3 grid whose goal is reachable A* has returned a path after it
\* closed more cells than the path holds
C25_Witness ==
    /\ alg = "astar"
    /\ maze.width = 3 /\ maze.height = 3
    /\ Goal(maze) \in Reachable(maze, <<0, 0>>)
    /\ sol_ret.kind = "Some"
    /\ Cardinality(DOMAIN solver.closed) > Len(sol_ret.path)

(***************************************************************************)
(* Grid operations applied to given grids.                                 *)
(***************************************************************************)
\* the cell bitmasks the enumerated grids and buffers are built from: every
\* direction bit occurs set and clear, and 0 (fully walled) is among them
Nibbles == {0, 3, 6, 9, 12, 15}

GridDims == {d \in (1..GridMaxCells) \X (1..GridMaxCells) : d[1] * d[2] <= GridMaxCells}

\* the grids of the given dimensions with cells among Nibbles
GridInputs(dims) ==
    UNION {{[width |-> d[1], height |-> d[2], cells |-> c] :
                c \in [1..(d[1] * d[2]) -> Nibbles]} : d \in dims}

\* the grids of the given dimensions with one cell of any bitmask 0..15 and
\* every other cell fully walled
ProbeGrids(dims) ==
    UNION {{[width |-> d[1], height |-> d[2],
             cells |-> [i \in 1..(d[1] * d[2]) |-> IF i = k THEN v ELSE 0]] :
                k \in 1..(d[1] * d[2]), v \in 0..15} : d \in dims}

GridInit ==
    /\ maze \in GridInputs(GridDims) \cup ProbeGrids(GridDims)
    /\ op = [NoOp EXCEPT !.name = "input"]
    /\ wilson = NoWilson
    /\ random_dfs = NoRandomDFS
    /\ gen_ret = "new"
    /\ alg = "none"
    /\ solver = NoSolver
    /\ sol_ret = NoRet
    /\ data = <<>>
    /\ decoded = NoDecoded

\* maze.carve(x, y, dir) toward a neighbor that is in bounds
GridCarve ==
    /\ op.name = "input"
    /\ \E p \in Positions(maze), d \in Direction :
        /\ carve_returns(maze, p[1], p[2], d)
        /\ maze' = carve(maze, p[1], p[2], d)
        /\ op' = [NoOp EXCEPT !.name = "carve", !.x = p[1], !.y = p[2], !.dir = d]
    /\ UNCHANGED <<wilson, random_dfs, gen_ret, alg, solver, sol_ret, data, decoded>>

\* maze.carve(x, y, dir) off an edge: the first open has happened when travel
\* panics on the overflow or the second open panics in get
GridCarveOffEdge ==
    /\ op.name = "input"
    /\ \E p \in Positions(maze), d \in Direction, overflow_checks \in BOOLEAN :
        /\ ~carve_returns(maze, p[1], p[2], d)
        /\ LET t == travel(d, p[1], p[2], overflow_checks)
           IN  IF t.kind = "panic" \/ travel_overflows(d, p[1], p[2]) THEN TRUE
               ELSE ~InBounds(maze, t.value[1], t.value[2])
        /\ maze' = open(maze, p[1], p[2], d)
        /\ op' = [NoOp EXCEPT !.name = "panic", !.x = p[1], !.y = p[2], !.dir = d]
    /\ UNCHANGED <<wilson, random_dfs, gen_ret, alg, solver, sol_ret, data, decoded>>

\* maze.get(x, y) with coordinates in and beyond the grid: the call returns the
\* cell, or panics
GridGet ==
    /\ op.name = "input"
    /\ \E x \in 0..(maze.width + 1), y \in 0..(maze.height + 1) :
        op' = IF InBounds(maze, x, y)
              THEN [NoOp EXCEPT !.name = "get", !.x = x, !.y = y, !.ret = get(maze, x, y)]
              ELSE [NoOp EXCEPT !.name = "get_panic", !.x = x, !.y = y]
    /\ UNCHANGED <<maze, wilson, random_dfs, gen_ret, alg, solver, sol_ret, data, decoded>>

\* maze.get_travellable_neighbors(pos) at a position of the grid
GridTravellable ==
    /\ op.name = "input"
    /\ \E p \in Positions(maze) :
        op' = [NoOp EXCEPT !.name = "travellable", !.x = p[1], !.y = p[2],
                          !.ret = get_travellable_neighbors(maze, p)]
    /\ UNCHANGED <<maze, wilson, random_dfs, gen_ret, alg, solver, sol_ret, data, decoded>>

\* maze.open(x, y, dir) called on its own, at a cell of the grid or one column
\* or row beyond it (where its get panics)
GridOpen ==
    /\ op.name = "input"
    /\ \E x \in 0..maze.width, y \in 0..maze.height, d \in Direction :
        IF InBounds(maze, x, y)
        THEN /\ maze' = open(maze, x, y, d)
             /\ op' = [NoOp EXCEPT !.name = "open", !.x = x, !.y = y, !.dir = d]
        ELSE /\ maze' = maze
             /\ op' = [NoOp EXCEPT !.name = "open_panic", !.x = x, !.y = y, !.dir = d]
    /\ UNCHANGED <<wilson, random_dfs, gen_ret, alg, solver, sol_ret, data, decoded>>

\* maze.close(x, y, dir)
GridClose ==
    /\ op.name = "input"
    /\ \E x \in 0..maze.width, y \in 0..maze.height, d \in Direction :
        IF InBounds(maze, x, y)
        THEN /\ maze' = close(maze, x, y, d)
             /\ op' = [NoOp EXCEPT !.name = "close", !.x = x, !.y = y, !.dir = d]
        ELSE /\ maze' = maze
             /\ op' = [NoOp EXCEPT !.name = "close_panic", !.x = x, !.y = y, !.dir = d]
    /\ UNCHANGED <<wilson, random_dfs, gen_ret, alg, solver, sol_ret, data, decoded>>

\* maze.delete(x, y)
GridDelete ==
    /\ op.name = "input"
    /\ \E x \in 0..maze.width, y \in 0..maze.height :
        IF InBounds(maze, x, y)
        THEN /\ maze' = delete(maze, x, y)
             /\ op' = [NoOp EXCEPT !.name = "delete", !.x = x, !.y = y]
        ELSE /\ maze' = maze
             /\ op' = [NoOp EXCEPT !.name = "delete_panic", !.x = x, !.y = y]
    /\ UNCHANGED <<wilson, random_dfs, gen_ret, alg, solver, sol_ret, data, decoded>>

GridNext ==
    \/ GridCarve \/ GridCarveOffEdge \/ GridGet \/ GridTravellable
    \/ GridOpen \/ GridClose \/ GridDelete

SpecGrid == GridInit /\ [][GridNext]_vars

\* C3: after carve(x, y, dir) toward an in-bounds neighbor,
\* get_travellable_neighbors(x, y) contains the target cell and
\* get_travellable_neighbors(target) contains (x, y).
C3_CarveTravellableBothWays ==
    op.name = "carve" =>
        LET t == neighbor_at(op.dir, op.x, op.y)
        IN  /\ t \in SeqToSet(get_travellable_neighbors(maze, <<op.x, op.y>>))
            /\ <<op.x, op.y>> \in SeqToSet(get_travellable_neighbors(maze, t))

\* a carve downwards in a 2 x 2 grid whose two cells are now fully open
C3_Witness ==
    /\ op.name = "carve"
    /\ maze.width = 2 /\ maze.height = 2
    /\ op.dir = DOWN /\ op.x = 1 /\ op.y = 0
    /\ maze.cells[2] = 15 /\ maze.cells[4] = 15

(***************************************************************************)
(* The codec (encode_maze, decode_maze in src/maze/mod.rs).                *)
(***************************************************************************)
U16_MAX == 65535

RECURSIVE BitOr(_, _)
\* a | b on unsigned integers
BitOr(a, b) ==
    IF a = 0 THEN b
    ELSE IF b = 0 THEN a
    ELSE 2 * BitOr(a \div 2, b \div 2) + (IF a % 2 = 1 \/ b % 2 = 1 THEN 1 ELSE 0)

\* cells.get(i).unwrap_or(&0), i 0-based
cell_or_default(cells, i) == IF i < Len(cells) THEN cells[i + 1] ELSE 0

\* u16::to_be_bytes
to_be_bytes(width) == <<width \div 256, width % 256>>

\* u16::to_le_bytes
to_le_bytes(width) == <<width % 256, width \div 256>>

RECURSIVE encode_pairs(_, _, _)
\* the bytes pushed by iterations lo..hi-1 of the loop of encode_maze, in order:
\* iteration i pushes cell1 << 4 | cell2, on u8 (the range is split in halves to
\* keep the evaluation shallow)
encode_pairs(cells, lo, hi) ==
    IF hi <= lo THEN <<>>
    ELSE IF hi = lo + 1
    THEN <<BitOr((cell_or_default(cells, lo * 2) * 16) % 256,
                 cell_or_default(cells, lo * 2 + 1))>>
    ELSE LET mid == (lo + hi) \div 2
         IN  encode_pairs(cells, lo, mid) \o encode_pairs(cells, mid, hi)

\* usize::div_ceil
div_ceil(a, b) == (a + b - 1) \div b

\* a faulty encode_maze: it writes the width little-endian
encode_maze_le(m) ==
    IF m.width > U16_MAX THEN Err("maze width too large")
    ELSE Ok(to_le_bytes(m.width) \o encode_pairs(m.cells, 0, div_ceil(Len(m.cells), 2)))

\* the bytes of the String returned (from_utf8_unchecked keeps them as they are)
encode_maze(m) ==
    IF m.width > U16_MAX THEN Err("maze width too large")
    ELSE Ok(to_be_bytes(m.width) \o encode_pairs(m.cells, 0, div_ceil(Len(m.cells), 2)))

\* a faulty unpacking: low nibble first
RECURSIVE decode_pairs_low_first(_, _, _, _)
decode_pairs_low_first(cell_data, lo, hi, cell_count) ==
    IF hi <= lo THEN <<>>
    ELSE IF hi = lo + 1
    THEN <<cell_data[lo + 1] % 16>>
         \o (IF lo * 2 + 1 < cell_count THEN <<cell_data[lo + 1] \div 16>> ELSE <<>>)
    ELSE LET mid == (lo + hi) \div 2
         IN  decode_pairs_low_first(cell_data, lo, mid, cell_count)
             \o decode_pairs_low_first(cell_data, mid, hi, cell_count)

RECURSIVE decode_pairs(_, _, _, _)
\* the cells pushed by iterations lo..hi-1 of the loop of decode_maze, in order:
\* iteration i pushes the high nibble, and the low one if i * 2 + 1 < cell_count
decode_pairs(cell_data, lo, hi, cell_count) ==
    IF hi <= lo THEN <<>>
    ELSE IF hi = lo + 1
    THEN <<cell_data[lo + 1] \div 16>>
         \o (IF lo * 2 + 1 < cell_count THEN <<cell_data[lo + 1] % 16>> ELSE <<>>)
    ELSE LET mid == (lo + hi) \div 2
         IN  decode_pairs(cell_data, lo, mid, cell_count)
             \o decode_pairs(cell_data, mid, hi, cell_count)

\* a faulty cell count: the padding nibble is never dropped
decode_cell_count_no_padding(cell_data) == Len(cell_data) * 2

\* the cell count decode_maze derives from the cell bytes
decode_cell_count(cell_data) ==
    IF cell_data[Len(cell_data)] % 16 = 0
    THEN Len(cell_data) * 2 - 1
    ELSE Len(cell_data) * 2

\* decode_maze panics on a buffer shorter than 2 bytes (the slice data[2..]), on
\* one of exactly 2 bytes (last().unwrap()) and on a width of zero (the division)
decode_maze(bytes) ==
    IF Len(bytes) < 3 THEN Panic
    ELSE LET cell_data == SubSeq(bytes, 3, Len(bytes))
             width == (((bytes[1] * 256) % 65536) + bytes[2]) % 65536
             cell_count == decode_cell_count(cell_data)
         IN  IF width = 0 THEN Panic
             ELSE Ok([width |-> width,
                      height |-> cell_count \div width,
                      cells |-> decode_pairs(cell_data, 0, Len(cell_data), cell_count)])

\* a grid of one row of fully open cells
WideGrid(width) == [width |-> width, height |-> 1, cells |-> [i \in 1..width |-> 15]]

ByteInputs == {16 * h + l : h \in Nibbles, l \in Nibbles}

\* Initially either a grid to encode, or a buffer to decode: a header for a
\* width of 0..3 or 256..259 followed by up to BufMaxCellBytes cell bytes, or a
\* truncated buffer
CodecInit ==
    /\ \/ /\ maze \in GridInputs(GridDims) \cup {WideGrid(WideWidth)}
          /\ data = <<>>
          /\ op = [NoOp EXCEPT !.name = "grid"]
       \/ /\ maze = new_maze(0, 0)
          /\ \/ \E n \in 0..BufMaxCellBytes :
                \E hi \in {0, 1}, lo \in 0..3, q \in [1..n -> ByteInputs] :
                    data = <<hi, lo>> \o q
             \/ data \in {<<>>, <<0>>}
          /\ op = [NoOp EXCEPT !.name = "buffer"]
    /\ decoded = NoDecoded
    /\ wilson = NoWilson
    /\ random_dfs = NoRandomDFS
    /\ gen_ret = "new"
    /\ alg = "none"
    /\ solver = NoSolver
    /\ sol_ret = NoRet

\* maze.as_str()
CodecEncode ==
    /\ op.name = "grid"
    /\ LET r == encode_maze(maze)
       IN  IF r.kind = "Ok"
           THEN data' = r.value /\ op' = [op EXCEPT !.name = "encoded"]
           ELSE data' = data /\ op' = [op EXCEPT !.name = "encode_err"]
    /\ UNCHANGED <<maze, wilson, random_dfs, gen_ret, alg, solver, sol_ret, decoded>>

\* Maze::from_data(&data), on a given buffer or on the bytes just encoded
CodecDecode ==
    /\ op.name \in {"buffer", "encoded"}
    /\ decoded' = decode_maze(data)
    /\ op' = [op EXCEPT !.name = IF op.name = "encoded" THEN "roundtrip" ELSE "decoded"]
    /\ UNCHANGED <<maze, wilson, random_dfs, gen_ret, alg, solver, sol_ret, data>>

CodecNext == CodecEncode \/ CodecDecode

SpecCodec == CodecInit /\ [][CodecNext]_vars

\* C4: for every grid whose row-major last cell is non-zero, decoding its
\* encoding gives back the grid: same width, same height, same cells.
C4_RoundTrip ==
    (op.name = "roundtrip" /\ maze.cells[Len(maze.cells)] # 0) =>
        /\ decoded.kind = "Ok"
        /\ decoded.value.width = maze.width
        /\ decoded.value.height = maze.height
        /\ decoded.value.cells = maze.cells

\* a round trip of a grid with an odd number of cells (a padded final byte)
C4_Witness ==
    /\ op.name = "roundtrip"
    /\ Len(maze.cells) = 3
    /\ maze.cells[3] # 0
    /\ maze.cells[2] = 0

\* C9: encode produces 2 + ceil(n/2) bytes: the width big-endian, then byte
\* 2+i with cell 2i in the high nibble and cell 2i+1 (0 if there is none) in
\* the low nibble; the 2x2 grid [6, 9, 3, 12] encodes to [0x00, 0x02, 0x69, 0x3C].
C9_EncodeLayout ==
    op.name = "encoded" =>
        LET n == Len(maze.cells)
            pairs == (n + 1) \div 2
        IN  /\ Len(data) = 2 + pairs
            /\ data[1] * 256 + data[2] = maze.width
            /\ data[1] \in 0..255 /\ data[2] \in 0..255
            /\ \A i \in 0..(pairs - 1) :
                data[3 + i] = 16 * maze.cells[2 * i + 1]
                              + (IF 2 * i + 1 = n THEN 0 ELSE maze.cells[2 * i + 2])
            /\ (maze = [width |-> 2, height |-> 2, cells |-> <<6, 9, 3, 12>>]
                    => data = <<0, 2, 105, 60>>)

\* the 2x2 scenario grid has been encoded
C9_Witness ==
    /\ op.name = "encoded"
    /\ maze = [width |-> 2, height |-> 2, cells |-> <<6, 9, 3, 12>>]

\* the buffers the format calls well formed: at least one cell byte, a non-zero
\* width, and a cell count the width divides
WellFormed(bytes) ==
    /\ Len(bytes) >= 3
    /\ bytes[1] * 256 + bytes[2] # 0
    /\ LET n == Len(bytes) - 2
           count == IF bytes[Len(bytes)] % 16 = 0 THEN 2 * n - 1 ELSE 2 * n
       IN  count % (bytes[1] * 256 + bytes[2]) = 0

\* C10: on a well-formed buffer decode reads the width big-endian from the
\* first two bytes, takes cellCount = 2*(len-2), minus 1 when the last low
\* nibble is zero, sets height = cellCount / width and unpacks exactly
\* cellCount nibbles, high then low; decode([0x00, 0x02, 0xFF]) is the 2 x 1
\* grid [0xF, 0xF].
C10_DecodeLayout ==
    (op.name \in {"decoded", "roundtrip"} /\ WellFormed(data)) =>
        LET n == Len(data) - 2
            count == IF data[Len(data)] % 16 = 0 THEN 2 * n - 1 ELSE 2 * n
        IN  /\ decoded.kind = "Ok"
            /\ decoded.value.width = data[1] * 256 + data[2]
            /\ decoded.value.height * decoded.value.width = count
            /\ Len(decoded.value.cells) = count
            /\ \A k \in 0..(count - 1) :
                decoded.value.cells[k + 1] =
                    IF k % 2 = 0 THEN data[3 + (k \div 2)] \div 16
                                 ELSE data[3 + (k \div 2)] % 16
            /\ (data = <<0, 2, 255>> =>
                    decoded.value = [width |-> 2, height |-> 1, cells |-> <<15, 15>>])

\* a well-formed buffer whose last low nibble is zero has been decoded
C10_Witness ==
    /\ op.name = "decoded"
    /\ WellFormed(data)
    /\ Len(data) = 4
    /\ data[4] % 16 = 0
    /\ decoded.kind = "Ok"
    /\ Len(decoded.value.cells) = 3

\* the width field and the cell count decode derives from a buffer of at least
\* 3 bytes
HeaderWidth(bytes) == bytes[1] * 256 + bytes[2]
DerivedCellCount(bytes) ==
    IF bytes[Len(bytes)] % 16 = 0 THEN 2 * (Len(bytes) - 2) - 1 ELSE 2 * (Len(bytes) - 2)

\* C11: for every buffer of at least 3 bytes with a non-zero width whose
\* computed cellCount is not a multiple of the width, decode fails with a
\* MalformedEncoding error and returns no Grid.
C11_IndivisibleIsMalformed ==
    (/\ op.name = "decoded"
     /\ Len(data) >= 3
     /\ HeaderWidth(data) # 0
     /\ DerivedCellCount(data) % HeaderWidth(data) # 0)
        => decoded.kind = "Err"

\* C12: for every buffer of fewer than 3 bytes and every buffer whose width
\* field is zero, decode returns a MalformedEncoding error value to the caller:
\* it does not crash and it returns no Grid.
C12_TruncatedOrZeroWidthIsError ==
    (/\ op.name = "decoded"
     /\ (Len(data) < 3 \/ HeaderWidth(data) = 0))
        => decoded.kind = "Err"

\* C29: every grid returned by Maze::new or by a successful decode has a cell
\* array of exactly width * height entries, for every buffer decode accepts,
\* the buffers whose last low nibble is zero and the encodings of grids with an
\* even cell count whose final cell is 0 among them.
C29_CellArrayFillsGrid ==
    /\ \A d \in GridDims : Len(new_maze(d[1], d[2]).cells) = d[1] * d[2]
    /\ (op.name \in {"decoded", "roundtrip"} /\ decoded.kind = "Ok") =>
          Len(decoded.value.cells) = decoded.value.width * decoded.value.height

(***************************************************************************)
(* Properties of get and get_travellable_neighbors.                        *)
(***************************************************************************)
\* the outcomes a get call can be recorded with: a value, an error value, a panic
GetOutcomes == {"get", "get_err", "get_panic"}

\* C13 as stated: get(x, y) returns cells[y*width + x] when x < width and
\* y < height, and otherwise fails with an OutOfBounds error that is a
\* recoverable result and not a crash.
C13_GetOutOfBoundsRecoverable ==
    op.name \in GetOutcomes =>
        IF op.x < maze.width /\ op.y < maze.height
        THEN op.name = "get" /\ op.ret = maze.cells[op.y * maze.width + op.x + 1]
        ELSE op.name = "get_err"

\* C13, amended: get(x, y) returns cells[y*width + x] when x < width and
\* y < height, and otherwise panics (the call returns nothing); in both cases
\* the Grid is left unchanged.
C13_GetReturnsOrPanics ==
    [][op'.name \in GetOutcomes =>
        /\ maze' = maze
        /\ IF op'.x < maze.width /\ op'.y < maze.height
           THEN op'.name = "get" /\ op'.ret = maze.cells[op'.y * maze.width + op'.x + 1]
           ELSE op'.name = "get_panic"]_vars

\* get has panicked on a call whose flat index y*width + x is within the cells
C13_Witness ==
    /\ op.name = "get_panic"
    /\ op.x = maze.width /\ op.y = 0
    /\ maze.height = 2

\* C16: for every grid and position of it, get_travellable_neighbors returns
\* exactly the in-bounds adjacent cells whose direction bit is set in the
\* position's bitmask: no cell twice, no cell whose bit is clear.
C16_TravellableExact ==
    op.name = "travellable" =>
        LET dirs == {d \in Direction :
                        /\ HasBit(get(maze, op.x, op.y), d)
                        /\ InBounds(maze, neighbor_at(d, op.x, op.y)[1], neighbor_at(d, op.x, op.y)[2])}
            cells == {neighbor_at(d, op.x, op.y) : d \in dirs}
        IN  /\ SeqToSet(op.ret) = cells
            /\ Len(op.ret) = Cardinality(cells)

\* the call was made on a cell with exactly three bits set, one of them
\* pointing off the grid, and returned two cells
C16_Witness ==
    /\ op.name = "travellable"
    /\ get(maze, op.x, op.y) = 7
    /\ Len(op.ret) = 2

(***************************************************************************)
(* The outputs of the generator.                                           *)
(***************************************************************************)
\* the spanning trees of the grid graph of the given dimensions, as grids, that
\* hold the passage from cell a in direction dir
TreeGridsWith(dims, a, dir) ==
    LET edge == IF dir \in {RIGHT, DOWN} THEN <<a, dir>>
                ELSE <<neighbor_at(dir, a[1], a[2]), opposite(dir)>>
        all == {h \in HalfPassages(dims) : h[2] \in {RIGHT, DOWN}}
        sets == {q \cup {edge} :
                    q \in {r \in SUBSET (all \ {edge}) :
                                Cardinality(r) = dims[1] * dims[2] - 2}}
        cells == (0 .. dims[1] - 1) \X (0 .. dims[2] - 1)
        trees == {q \in sets : Joined(q, {<<0, 0>>}) = cells}
    IN  {GridOfHalfPassages(dims, BothHalves(q)) : q \in trees}

\* the neighbors of the one cell of the walk that commit it along a passage of
\* the tree t
tree_draws(w, m, t) ==
    {n \in step_choices(w, m) :
        /\ HasBit(get(t, w.walk[1][1], w.walk[1][2]), n[3])
        /\ step_commits(w, m, n)}

\* whether a cell has, in the tree t, a passage to a cell that m has carved
beside_carved(m, t, c) ==
    \E d \in Direction :
        /\ HasBit(get(t, c[1], c[2]), d)
        /\ InBounds(m, neighbor_at(d, c[1], c[2])[1], neighbor_at(d, c[1], c[2])[2])
        /\ get(m, neighbor_at(d, c[1], c[2])[1], neighbor_at(d, c[1], c[2])[2]) # 0

RECURSIVE GrowsTo(_, _, _)
\* whether a run of walks of two cells each, every one of them a passage of
\* the tree t drawn from a one-cell walk, ends with step returning true and the
\* grid equal to t; every draw of the run is one the code can make
GrowsTo(w, m, t) ==
    /\ Len(w.walk) = 1
    /\ tree_draws(w, m, t) # {}
    /\ LET next == CHOOSE n \in tree_draws(w, m, t) : TRUE
           first == wilson_step(w, m, next, 0)
           picks == {k \in pick_range(w, m, next) :
                        beside_carved(first.m, t, possible_next(first.m)[k + 1])}
       IN  IF first.ret = "true" THEN first.m = t
           ELSE /\ first.ret = "false"
                /\ picks # {}
                /\ LET r == wilson_step(w, m, next, CHOOSE k \in picks : TRUE)
                   IN  r.ret = "false" /\ GrowsTo(r.w, r.m, t)

\* C27: for an empty W x H grid (W >= 2, H >= 2) every spanning tree of the
\* grid graph is a possible output: from the generator constructed with a
\* start and a target that are adjacent, every spanning tree holding the
\* passage between them is the grid of some run that ends with step returning
\* true (every spanning tree holds some passage, and every adjacent pair is a
\* possible start and target).
C27_EverySpanningTreePossible ==
    gen_ret = "new" =>
        LET start == wilson.walk[1]
            end == wilson.first_walk_target[1]
        IN  \A d \in Direction :
                neighbor_at(d, start[1], start[2]) = end =>
                    \A t \in TreeGridsWith(get_bounds(maze), start, d) :
                        GrowsTo(wilson, maze, t)

\* generation has completed with the 3 x 3 grid a single winding corridor
C27_Witness ==
    /\ gen_ret = "true"
    /\ maze = [width |-> 3, height |-> 3, cells |-> <<2, 10, 12, 6, 10, 9, 3, 10, 8>>]

====
